---- MODULE Spec2Model ----
(***************************************************************************)
(* A model of the CI/CD security scanner: the text chunker (utils.py), the *)
(* risk extractor, the hosted-backend retry loops and the scan             *)
(* orchestrator (analysis.py), the two stores and the retrieval path       *)
(* (database.py) and the session handling of main.py.                      *)
(*                                                                         *)
(* Texts are sequences of symbols.  A symbol is a one-character string, or *)
(* one of the fixed literals the regular expressions of the code look for  *)
(* ("### Risk:", "**Severity**: ", ...), taken as a unit.                  *)
(***************************************************************************)
EXTENDS Integers, Sequences, FiniteSets, TLC

VARIABLES
    \* ---- utils.chunk_text, one call
    ct_text, ct_size, ct_overlap, ct_pc, ct_start, ct_chunks,
    \* ---- analysis.detect_owasp_risks, one call: the blocks the analysis text
    \* is written from, the text before the first block, the words of the file
    \* content, the position of the call and what it returned
    dt_blocks, dt_pre, dt_words, dt_pc, dt_out,
    \* ---- one call of analyze (analyze_with_ollama / analyze_with_gemini) or
    \* answer (generate_rag_response): the operation, the backend, the context
    \* handed to answer, the position, the loop variable, the backend outcomes
    \* so far, the seconds slept and what the call returned
    rt_op, rt_model, rt_context, rt_pc, rt_attempt, rt_outcomes, rt_slept, rt_result,
    \* ---- the stores: the scan_results table and the cicd_docs collection
    db, vdb,
    \* ---- st.session_state of main.py
    sess_results, sess_risk, show_confirm,
    \* ---- one run of scan_directory: position, directory, the files list, the
    \* loop index, the locals results / risk_count / processed_files, the value
    \* last given to the progress bar, the directory of the run before, the
    \* files this run inserted into scan_results, and what the last iteration did
    scan_pc, scan_dir, scan_files, scan_idx, results, risk_count,
    processed_files, progress, prev_dir, stored_now, last,
    \* ---- database.query_vectors, one call
    q_question, q_pc, q_ranked, q_result,
    \* ---- embedding.OllamaEmbeddingFunction.__call__, one call: the input
    \* documents, what the backend did, the position, the returned list
    em_input, em_resp, em_pc, em_out

chunkVars == <<ct_text, ct_size, ct_overlap, ct_pc, ct_start, ct_chunks>>

detVars == <<dt_blocks, dt_pre, dt_words, dt_pc, dt_out>>

retryVars ==
    <<rt_op, rt_model, rt_context, rt_pc, rt_attempt, rt_outcomes, rt_slept, rt_result>>

storeVars == <<db, vdb>>

sessVars == <<sess_results, sess_risk, show_confirm>>

scanVars ==
    <<scan_pc, scan_dir, scan_files, scan_idx, results, risk_count,
      processed_files, progress, prev_dir, stored_now, last>>

queryVars == <<q_question, q_pc, q_ranked, q_result>>

embedVars == <<em_input, em_resp, em_pc, em_out>>

vars ==
    <<chunkVars, detVars, retryVars, storeVars, sessVars, scanVars, queryVars,
      embedVars>>

-----------------------------------------------------------------------------
(* Generic helpers on sequences and numbers                                *)

Min(a, b) == IF a < b THEN a ELSE b

Max(a, b) == IF a > b THEN a ELSE b

Range(s) == {s[i] : i \in DOMAIN s}

\* s[i:j] of Python for any integers i, j (zero-based, negative counts from the end)
PySlice(s, i, j) ==
    LET n  == Len(s)
        lo == IF i < 0 THEN Max(i + n, 0) ELSE Min(i, n)
        hi == IF j < 0 THEN Max(j + n, 0) ELSE Min(j, n)
    IN  IF lo < hi THEN SubSeq(s, lo + 1, hi) ELSE <<>>

\* s.startswith(p)
StartsWith(s, p) == Len(p) <= Len(s) /\ SubSeq(s, 1, Len(p)) = p

\* p occurs in s at offset i (zero-based)
OccursAt(s, p, i) == i + Len(p) <= Len(s) /\ SubSeq(s, i + 1, i + Len(p)) = p

\* "p in s" of Python, for sequences of symbols
Contains(s, p) == \E i \in 0..Len(s) : OccursAt(s, p, i)

-----------------------------------------------------------------------------
(* utils.chunk_text                                                        *)

\* Bounds of the chunker's inputs
MaxTextLen == 6

MaxChunkSize == 4

MaxOverlap == 4

\* The loop is cut after this many chunks: one more than any terminating run
\* over a text of MaxTextLen characters appends.
ChunkCap == MaxTextLen + 1

Alphabet == <<"a", "b", "c", "d", "e", "f", "g", "h", "i", "j">>

\* A text of n distinct characters, so that a chunk names the offsets it covers
TextOfLen(n) == SubSeq(Alphabet, 1, n)

\* end = min(start + chunk_size, text_length); text[start:end]
ChunkAt(text, start, chunk_size) ==
    PySlice(text, start, Min(start + chunk_size, Len(text)))

ChunkStepNoOverlap(start, chunk_size, overlap) == start + chunk_size

\* start += chunk_size - overlap
ChunkStep(start, chunk_size, overlap) == start + chunk_size - overlap

RECURSIVE ChunkLoop(_, _, _, _, _)
ChunkLoop(text, chunk_size, overlap, start, chunks) ==
    IF start < Len(text)
    THEN ChunkLoop(text, chunk_size, overlap,
                   ChunkStep(start, chunk_size, overlap),
                   Append(chunks, ChunkAt(text, start, chunk_size)))
    ELSE chunks

\* chunk_text(text, chunk_size, overlap), for arguments on which it returns
chunk_text(text, chunk_size, overlap) == ChunkLoop(text, chunk_size, overlap, 0, <<>>)

DefaultChunkSize == 1000

DefaultOverlap == 200

\* One call of chunk_text, statement by statement
ChunkInit ==
    /\ ct_text \in {TextOfLen(n) : n \in 0..MaxTextLen}
    /\ ct_size \in 1..MaxChunkSize
    /\ ct_overlap \in 0..MaxOverlap
    /\ ct_pc = "entry"
    /\ ct_start = 0
    /\ ct_chunks = <<>>

ChunkIdle ==
    /\ ct_text = <<>>
    /\ ct_size = DefaultChunkSize
    /\ ct_overlap = DefaultOverlap
    /\ ct_pc = "idle"
    /\ ct_start = 0
    /\ ct_chunks = <<>>

\* chunks = []; start = 0; text_length = len(text)
ChunkEnter ==
    /\ ct_pc = "entry"
    /\ ct_pc' = "loop"
    /\ ct_start' = 0
    /\ ct_chunks' = <<>>
    /\ UNCHANGED <<ct_text, ct_size, ct_overlap>>
    /\ UNCHANGED <<detVars, retryVars, storeVars, sessVars, scanVars, queryVars, embedVars>>

\* while start < text_length: one iteration
ChunkIter ==
    /\ ct_pc = "loop"
    /\ ct_start < Len(ct_text)
    /\ Len(ct_chunks) < ChunkCap
    /\ ct_chunks' = Append(ct_chunks, ChunkAt(ct_text, ct_start, ct_size))
    /\ ct_start' = ChunkStep(ct_start, ct_size, ct_overlap)
    /\ UNCHANGED <<ct_text, ct_size, ct_overlap, ct_pc>>
    /\ UNCHANGED <<detVars, retryVars, storeVars, sessVars, scanVars, queryVars, embedVars>>

\* the loop condition fails: return chunks
ChunkReturn ==
    /\ ct_pc = "loop"
    /\ ~(ct_start < Len(ct_text))
    /\ ct_pc' = "done"
    /\ UNCHANGED <<ct_text, ct_size, ct_overlap, ct_start, ct_chunks>>
    /\ UNCHANGED <<detVars, retryVars, storeVars, sessVars, scanVars, queryVars, embedVars>>

ChunkNext == ChunkEnter \/ ChunkIter \/ ChunkReturn

-----------------------------------------------------------------------------
(* Claims about chunk_text                                                 *)

\* Offsets of the k-th chunk (k from 0) as the claims state them
StartOf(k) == k * (ct_size - ct_overlap)

EndOf(k) == Min(StartOf(k) + ct_size, Len(ct_text))

\* The number of offsets 0, c-o, 2(c-o), ... below L
NumStarts == Cardinality({k \in 0..Len(ct_text) : StartOf(k) < Len(ct_text)})

\* Characters that chunk k and chunk k+1 have in common
Shared(k) == Max(EndOf(k) - StartOf(k + 1), 0)

ChunkShape ==
    /\ Len(ct_chunks) = NumStarts
    /\ \A k \in 0..(Len(ct_chunks) - 1) :
          /\ ct_chunks[k + 1] = SubSeq(ct_text, StartOf(k) + 1, EndOf(k))
          /\ Len(ct_chunks[k + 1]) <= ct_size
          /\ Len(ct_chunks[k + 1]) >= 1
    \* no gap: every offset of [0, L) lies in some chunk
    /\ \A p \in 0..(Len(ct_text) - 1) :
          \E k \in 0..(Len(ct_chunks) - 1) : StartOf(k) <= p /\ p < EndOf(k)

ChunkCallValid == ct_pc = "done" /\ ct_overlap < ct_size

\* C9 as claimed: for 0 <= o < c the chunks start at 0, c-o, 2(c-o), ... below L,
\* each is text[start : min(start+c, L)], they cover [0, L) with no gap, and
\* every adjacent pair that does not involve the final chunk shares exactly o
\* characters.
C9_AsClaimed ==
    ChunkCallValid =>
        /\ ChunkShape
        /\ \A k \in 0..(Len(ct_chunks) - 3) : Shared(k) = ct_overlap

\* C9 amended: the same starts, contents and coverage; an adjacent pair shares
\* exactly o characters whenever its earlier chunk is a full window
\* (start + c <= L), and L - start of the later chunk (fewer than o) otherwise.
C9_ChunkCover ==
    ChunkCallValid =>
        /\ ChunkShape
        /\ \A k \in 0..(Len(ct_chunks) - 2) :
              IF StartOf(k) + ct_size <= Len(ct_text)
              THEN Shared(k) = ct_overlap
              ELSE Shared(k) = Len(ct_text) - StartOf(k + 1) /\ Shared(k) < ct_overlap

\* C9 witness: a returned call with several chunks, a positive overlap and a
\* short last chunk.
C9_Witness ==
    /\ ChunkCallValid
    /\ Len(ct_chunks) >= 3
    /\ ct_overlap >= 1
    /\ Len(ct_chunks[Len(ct_chunks)]) < ct_size

\* C10 as claimed: chunk_text terminates on every input; called with
\* overlap >= chunk_size on a non-empty text it rejects the arguments, so it
\* never appends more chunks than the text has characters.
C10_Terminates ==
    Len(ct_chunks) <= Len(ct_text)

-----------------------------------------------------------------------------
(* Symbols of the analysis text and of file contents                       *)

NL == "\n"

SP == " "

T_RISK == "### Risk:"

T_SEV == "**Severity**: "

T_REASON == "**Reason**: "

T_SUGG == "**Suggestion**:"

UpperLetters ==
    <<"A", "B", "C", "D", "E", "F", "G", "H", "I", "J", "K", "L", "M",
      "N", "O", "P", "Q", "R", "S", "T", "U", "V", "W", "X", "Y", "Z">>

LowerLetters ==
    <<"a", "b", "c", "d", "e", "f", "g", "h", "i", "j", "k", "l", "m",
      "n", "o", "p", "q", "r", "s", "t", "u", "v", "w", "x", "y", "z">>

Digits == <<"0", "1", "2", "3", "4", "5", "6", "7", "8", "9">>

\* str.lower() on one symbol
LowerSym(ch) ==
    IF \E i \in DOMAIN UpperLetters : UpperLetters[i] = ch
    THEN LowerLetters[CHOOSE i \in DOMAIN UpperLetters : UpperLetters[i] = ch]
    ELSE ch

\* str.lower()
Lower(s) == [i \in DOMAIN s |-> LowerSym(s[i])]

\* \w of the regular expressions
IsWordChar(ch) ==
    ch \in Range(UpperLetters) \cup Range(LowerLetters) \cup Range(Digits) \cup {"_"}

IsSpace(ch) == ch \in {SP, NL, "\t"}

\* str.strip()
RECURSIVE LStrip(_)
LStrip(s) == IF s # <<>> /\ IsSpace(Head(s)) THEN LStrip(Tail(s)) ELSE s

RECURSIVE RStrip(_)
RStrip(s) ==
    IF s # <<>> /\ IsSpace(s[Len(s)]) THEN RStrip(SubSeq(s, 1, Len(s) - 1)) ELSE s

Strip(s) == RStrip(LStrip(s))

\* Spelled-out words
W_registry == <<"r", "e", "g", "i", "s", "t", "r", "y">>
W_image == <<"i", "m", "a", "g", "e">>
W_script == <<"s", "c", "r", "i", "p", "t">>
W_sh == <<"s", "h">>
W_bash == <<"b", "a", "s", "h">>
W_command == <<"c", "o", "m", "m", "a", "n", "d">>
W_shell == <<"s", "h", "e", "l", "l">>
W_push == <<"p", "u", "s", "h">>
W_network == <<"n", "e", "t", "w", "o", "r", "k">>
W_host == <<"h", "o", "s", "t">>
W_bridge == <<"b", "r", "i", "d", "g", "e">>
W_overlay == <<"o", "v", "e", "r", "l", "a", "y">>
W_gitlab == <<"g", "i", "t", "l", "a", "b">>
W_runner == <<"r", "u", "n", "n", "e", "r">>
W_token == <<"t", "o", "k", "e", "n">>
W_x == <<"x">>

-----------------------------------------------------------------------------
(* analysis.detect_owasp_risks                                             *)

\* re.split(r'### Risk:', analysis_text): the pieces between the delimiters
RECURSIVE SplitFrom(_, _, _)
SplitFrom(text, i, cur) ==
    IF i > Len(text) THEN <<cur>>
    ELSE IF text[i] = T_RISK THEN <<cur>> \o SplitFrom(text, i + 1, <<>>)
    ELSE SplitFrom(text, i + 1, Append(cur, text[i]))

RiskBlocksAll(analysis_text) == SplitFrom(analysis_text, 1, <<>>)

\* re.split(r'### Risk:', analysis_text)[1:]
RiskBlocks(analysis_text) == Tail(SplitFrom(analysis_text, 1, <<>>))

NoMatch == <<"nomatch">>

\* re.search(r'(.+?)\n', block): group 1 is the first non-empty line that a
\* newline ends; NoMatch when there is none
RiskNameMatch(block) ==
    LET starts == {p \in DOMAIN block : block[p] # NL}
    IN  IF starts = {} THEN NoMatch
        ELSE LET p    == CHOOSE a \in starts : \A b \in starts : a <= b
                 ends == {q \in DOMAIN block : q > p /\ block[q] = NL}
             IN  IF ends = {} THEN NoMatch
                 ELSE LET q == CHOOSE a \in ends : \A b \in ends : a <= b
                      IN  <<"match", SubSeq(block, p, q - 1)>>

SeverityWords == {"Low", "Medium", "High"}

SeverityMatchHighOnly(block) ==
    LET hits == {i \in DOMAIN block :
                    block[i] = T_SEV /\ i < Len(block) /\ block[i + 1] = "High"}
    IN  IF hits = {} THEN NoMatch
        ELSE <<"match", block[(CHOOSE a \in hits : \A b \in hits : a <= b) + 1]>>

\* re.search(r'\*\*Severity\*\*: (Low|Medium|High)', block): the first marker
\* that one of the three words follows
SeverityMatch(block) ==
    LET hits == {i \in DOMAIN block :
                    block[i] = T_SEV /\ i < Len(block) /\ block[i + 1] \in SeverityWords}
    IN  IF hits = {} THEN NoMatch
        ELSE <<"match", block[(CHOOSE a \in hits : \A b \in hits : a <= b) + 1]>>

\* re.search(r'\*\*Reason\*\*: (.+?)(?=\n\*\*Suggestion\*\*:|$)', block, re.DOTALL)
\* matches when at least one character follows a marker: the lazy group can run
\* to the end of the block.
ReasonMatch(block) ==
    \E i \in DOMAIN block : block[i] = T_REASON /\ i < Len(block)

\* re.search(r'registry|image', content, re.IGNORECASE)
RegistryCorroborated(content) ==
    LET c == Lower(content) IN Contains(c, W_registry) \/ Contains(c, W_image)

\* sh\b: "sh" with no word character after it
ShAtWordEnd(c) ==
    \E i \in 0..Len(c) :
        /\ OccursAt(c, W_sh, i)
        /\ (i + 2 = Len(c) \/ ~IsWordChar(c[i + 3]))

ShellCorroboratedByShellWord(content) ==
    LET c == Lower(content)
    IN  Contains(c, W_script) \/ Contains(c, W_shell) \/ Contains(c, W_command)

\* re.search(r'script|sh\b|bash|command', content, re.IGNORECASE)
ShellCorroborated(content) ==
    LET c == Lower(content)
    IN  Contains(c, W_script) \/ ShAtWordEnd(c) \/ Contains(c, W_bash)
            \/ Contains(c, W_command)

\* re.search(r'network|host|bridge|overlay', content, re.IGNORECASE)
NetworkCorroborated(content) ==
    LET c == Lower(content)
    IN  Contains(c, W_network) \/ Contains(c, W_host) \/ Contains(c, W_bridge)
            \/ Contains(c, W_overlay)

\* re.search(r'gitlab|runner|token', content, re.IGNORECASE)
GitlabCorroborated(content) ==
    LET c == Lower(content)
    IN  Contains(c, W_gitlab) \/ Contains(c, W_runner) \/ Contains(c, W_token)

\* The four "continue" statements: TRUE when the finding is dropped
Filtered(risk_name, content) ==
    LET n == Lower(risk_name)
    IN  \/ Contains(n, W_registry) /\ ~RegistryCorroborated(content)
        \/ Contains(n, W_shell) /\ ~ShellCorroborated(content)
        \/ Contains(n, W_network) /\ ~NetworkCorroborated(content)
        \/ Contains(n, W_gitlab) /\ ~GitlabCorroborated(content)

\* The body of "for block in risk_blocks": the findings one block appends
BlockFindings(block, content) ==
    LET nm == RiskNameMatch(block)
        sv == SeverityMatch(block)
    IN  IF nm # NoMatch /\ sv # NoMatch /\ ReasonMatch(block)
        THEN IF Filtered(Strip(nm[2]), content)
             THEN <<>>
             ELSE <<[risk_name |-> Strip(nm[2]), severity |-> sv[2]]>>
        ELSE <<>>

RECURSIVE DetectLoop(_, _)
DetectLoop(blocks, content) ==
    IF blocks = <<>> THEN <<>>
    ELSE BlockFindings(Head(blocks), content) \o DetectLoop(Tail(blocks), content)

detect_owasp_risks(analysis_text, content) ==
    DetectLoop(RiskBlocks(analysis_text), content)

-----------------------------------------------------------------------------
(* One call of detect_owasp_risks on a written-out analysis text           *)

MaxBlocks == 2

\* Risk names as the backend may write them
N_leak == <<"L", "e", "a", "k">>
N_shell == <<"S", "h", "e", "l", "l">>
N_registry == <<"R", "e", "g", "i", "s", "t", "r", "y">>
N_network == <<"n", "e", "t", "w", "o", "r", "k">>
N_gitlab == <<"G", "i", "t", "L", "a", "b">>
N_gitlab_shell == N_gitlab \o <<SP>> \o W_shell

BlockDesc(name, sev, reason, sugg) ==
    [name |-> name, sev |-> sev, reason |-> reason, sugg |-> sugg]

\* The blocks an analysis text is written from: name "" is an empty name line,
\* sev "none" a missing severity line, reason "none" a missing reason line and
\* reason "bare" a reason marker that ends the block.
BlockDescs ==
    { BlockDesc(N_leak, "High", "text", TRUE),
      BlockDesc(N_leak, "Low", "text", TRUE),
      BlockDesc(N_leak, "Medium", "text", FALSE),
      BlockDesc(N_shell, "High", "text", TRUE),
      BlockDesc(N_registry, "Medium", "text", TRUE),
      BlockDesc(N_network, "Low", "text", TRUE),
      BlockDesc(N_gitlab, "High", "text", FALSE),
      BlockDesc(N_gitlab_shell, "High", "text", TRUE),
      BlockDesc(N_leak, "none", "text", TRUE),
      BlockDesc(N_leak, "Critical", "text", TRUE),
      BlockDesc(N_leak, "High", "none", TRUE),
      BlockDesc(N_leak, "High", "bare", FALSE),
      BlockDesc(<<>>, "High", "text", TRUE) }

\* "### Risk: <name>\n**Severity**: <sev>\n**Reason**: r\n**Suggestion**: s\n"
RenderBlock(d) ==
    <<T_RISK>>
    \o (IF d.name = <<>> THEN <<>> ELSE <<SP>> \o d.name) \o <<NL>>
    \o (IF d.sev = "none" THEN <<>> ELSE <<T_SEV, d.sev, NL>>)
    \o (CASE d.reason = "text" -> <<T_REASON, "r", NL>>
          [] d.reason = "bare" -> <<T_REASON>>
          [] OTHER -> <<>>)
    \o (IF d.sugg THEN <<T_SUGG, SP, "s", NL>> ELSE <<>>)

RECURSIVE RenderBlocks(_)
RenderBlocks(ds) ==
    IF ds = <<>> THEN <<>> ELSE RenderBlock(Head(ds)) \o RenderBlocks(Tail(ds))

Preambles == {<<>>, <<"o", "k", NL>>}

AnalysisTextOf(pre, ds) == pre \o RenderBlocks(ds)

\* The words a file content is written from, and their spelling
Spell(w) ==
    CASE w = "registry" -> W_registry [] w = "image" -> W_image
      [] w = "script" -> W_script [] w = "sh" -> W_sh [] w = "bash" -> W_bash
      [] w = "command" -> W_command [] w = "shell" -> W_shell
      [] w = "push" -> W_push [] w = "network" -> W_network
      [] w = "host" -> W_host [] w = "bridge" -> W_bridge
      [] w = "overlay" -> W_overlay [] w = "gitlab" -> W_gitlab
      [] w = "runner" -> W_runner [] w = "token" -> W_token
      [] OTHER -> W_x

\* ' '.join(words), as preprocess_text leaves a content
RECURSIVE JoinWords(_)
JoinWords(ws) ==
    IF ws = <<>> THEN <<>>
    ELSE IF Len(ws) = 1 THEN Spell(ws[1])
    ELSE Spell(ws[1]) \o <<SP>> \o JoinWords(Tail(ws))

ContentWordLists ==
    { <<w>> : w \in {"registry", "image", "script", "sh", "bash", "command",
                     "shell", "push", "network", "host", "bridge", "overlay",
                     "gitlab", "runner", "token", "x"} }
    \cup { <<"x", "sh", "x">>, <<"shell", "x">>, <<"token", "script">> }

SeqsUpTo(S, n) == UNION {[1..k -> S] : k \in 0..n}

DetectInit ==
    /\ dt_blocks \in SeqsUpTo(BlockDescs, MaxBlocks)
    /\ dt_pre \in Preambles
    /\ dt_words \in ContentWordLists
    /\ dt_pc = "call"
    /\ dt_out = <<>>

DetectIdle ==
    /\ dt_blocks = <<>>
    /\ dt_pre = <<>>
    /\ dt_words = <<>>
    /\ dt_pc = "idle"
    /\ dt_out = <<>>

\* detected = detect_owasp_risks(analysis, content)
DetectCall ==
    /\ dt_pc = "call"
    /\ dt_out' = detect_owasp_risks(AnalysisTextOf(dt_pre, dt_blocks), JoinWords(dt_words))
    /\ dt_pc' = "done"
    /\ UNCHANGED <<dt_blocks, dt_pre, dt_words>>
    /\ UNCHANGED <<chunkVars, retryVars, storeVars, sessVars, scanVars, queryVars, embedVars>>

DetectNext == DetectCall

-----------------------------------------------------------------------------
(* Claims about detect_owasp_risks                                         *)

\* A block as the output format of the prompt asks for it
WellFormed(d) ==
    d.name # <<>> /\ d.sev \in {"Low", "Medium", "High"} /\ d.reason = "text"

\* The terms of the corroboration filters that a risk name carries
TermsOf(name) ==
    CASE name = N_shell -> {"shell"}
      [] name = N_registry -> {"registry"}
      [] name = N_network -> {"network"}
      [] name = N_gitlab -> {"gitlab"}
      [] name = N_gitlab_shell -> {"gitlab", "shell"}
      [] OTHER -> {}

ExpectedFinding(d) == [risk_name |-> d.name, severity |-> d.sev]

AllWellFormed == \A i \in DOMAIN dt_blocks : WellFormed(dt_blocks[i])

\* C7: an analysis text of exactly N well-formed blocks whose names carry none
\* of the filter terms yields exactly N findings, the i-th with the name and
\* the severity of the i-th block.
C7_RoundTrip ==
    (dt_pc = "done" /\ AllWellFormed
        /\ \A i \in DOMAIN dt_blocks : TermsOf(dt_blocks[i].name) = {})
    => dt_out = [i \in DOMAIN dt_blocks |-> ExpectedFinding(dt_blocks[i])]

\* C7 witness: two well-formed blocks of different severity after a preamble,
\* both returned.
C7_Witness ==
    /\ dt_pc = "done" /\ AllWellFormed /\ dt_pre # <<>>
    /\ Len(dt_blocks) = 2 /\ Len(dt_out) = 2
    /\ \A i \in DOMAIN dt_blocks : TermsOf(dt_blocks[i].name) = {}
    /\ dt_blocks[1].sev # dt_blocks[2].sev

\* The vocabulary of a filter term, as word lists: the content words that
\* corroborate it
HasWord(ws, S) == \E i \in DOMAIN ws : ws[i] \in S

\* C8 as claimed: "shell" is corroborated by script/shell/command vocabulary
ClaimedVocabulary(term) ==
    CASE term = "registry" -> {"registry", "image"}
      [] term = "shell" -> {"script", "shell", "command"}
      [] term = "network" -> {"network", "host", "bridge", "overlay"}
      [] OTHER -> {"gitlab", "runner", "token"}

\* C8 amended: "shell" is corroborated by "script", "bash", "command" or a
\* word that ends in "sh" (the word "shell" does not count)
CodeVocabulary(term) ==
    CASE term = "registry" -> {"registry", "image"}
      [] term = "shell" -> {"script", "sh", "bash", "push", "command"}
      [] term = "network" -> {"network", "host", "bridge", "overlay"}
      [] OTHER -> {"gitlab", "runner", "token"}

\* C8 as claimed: a well-formed finding whose name carries filter terms is
\* kept iff the content holds the vocabulary of each term (registry/image;
\* script/shell/command; network/host/bridge/overlay; gitlab/runner/token);
\* a finding whose name carries none is always kept.
C8_AsClaimed ==
    (dt_pc = "done" /\ AllWellFormed)
    => dt_out = SelectSeq([i \in DOMAIN dt_blocks |-> ExpectedFinding(dt_blocks[i])],
                          LAMBDA f : \A t \in TermsOf(f.risk_name) :
                                        HasWord(dt_words, ClaimedVocabulary(t)))

\* C8 amended: the same, with "shell" corroborated by a content that holds
\* "script", "bash", "command" or "sh" at the end of a word.
C8_Corroboration ==
    (dt_pc = "done" /\ AllWellFormed)
    => dt_out = SelectSeq([i \in DOMAIN dt_blocks |-> ExpectedFinding(dt_blocks[i])],
                          LAMBDA f : \A t \in TermsOf(f.risk_name) :
                                        HasWord(dt_words, CodeVocabulary(t)))

\* C8 witness: for the content "shell x" the finding named after the shell is
\* dropped, and the finding that names none of the four terms is kept.
C8_Witness ==
    /\ dt_pc = "done" /\ AllWellFormed
    /\ Len(dt_blocks) = 2
    /\ dt_blocks[1].name = N_shell /\ dt_blocks[2].name = N_leak
    /\ dt_words = <<"shell", "x">>
    /\ dt_out = <<ExpectedFinding(dt_blocks[2])>>

-----------------------------------------------------------------------------
(* The completion backends: analyze_with_ollama, analyze_with_gemini and   *)
(* generate_rag_response                                                   *)

max_retries == 3

rag_max_retries == 3

BackoffSeconds == 60

MaxRetriesOf(op) == IF op = "analyze" THEN max_retries ELSE rag_max_retries

\* Messages of the exceptions a backend call raises
M_quota == <<"q", "u", "o", "t", "a">>
M_Quota == <<"Q", "u", "o", "t", "a", SP, "h", "i", "t">>
M_rate == <<"4", "2", "9">>
M_other == <<"o", "o", "p", "s">>

ErrorMessages == {M_quota, M_Quota, M_rate, M_other}

\* What one backend call does: a response with content, a response without
\* candidates, or an exception with its message
Text == [kind |-> "text", msg |-> <<>>]

Empty == [kind |-> "empty", msg |-> <<>>]

Raised(m) == [kind |-> "exc", msg |-> m]

GeminiOutcomes == {Text, Empty} \cup {Raised(m) : m \in ErrorMessages}

\* The local backend's response always carries choices[0].message.content
OllamaOutcomes == {Text} \cup {Raised(m) : m \in ErrorMessages}

AnyErrorIsQuota(msg) == TRUE

\* "quota" in str(e).lower()
IsQuotaError(msg) == Contains(Lower(msg), M_quota)

ShouldBackoffAlways(op, attempt) == attempt < MaxRetriesOf(op)

\* if attempt < max_retries - 1
ShouldBackoff(op, attempt) == attempt < MaxRetriesOf(op) - 1

\* The contexts show_rag_qa may hand to generate_rag_response: [], the marker
\* list of query_vectors, a list holding an empty list, a list of documents
Contexts == {"empty", "marker", "nested_empty", "docs"}

\* Python values of the contexts: a str and a list never compare equal
PyStr(x) == [kind |-> "str", val |-> x]

PyList(x) == [kind |-> "list", val |-> x]

PyEq(a, b) == a.kind = b.kind /\ a.val = b.val

\* return ["No related files found."] of query_vectors
MarkerText == PyStr("No related files found.")

\* the literal of the test context[0] == ["no related files found"]
NoRelatedLiteral == PyStr("no related files found")

\* query_vectors returns [marker], [filtered_docs] or [documents[0]]
ContextValue(context) ==
    CASE context = "empty" -> <<>>
      [] context = "marker" -> <<MarkerText>>
      [] context = "nested_empty" -> <<PyList(<<>>)>>
      [] OTHER -> <<PyList(<<PyStr("doc")>>)>>

\* not context or not isinstance(context, list) or
\* context[0] == ["no related files found"]: context[0] is a string (the
\* marker) or a list of documents, never the one-element list compared with
RefusesContext(context) ==
    LET v == ContextValue(context)
    IN  \/ v = <<>>
        \/ PyEq(v[1], PyList(<<NoRelatedLiteral>>))

RetryInit ==
    /\ rt_op \in {"analyze", "answer"}
    /\ rt_model \in {"OLLAMA", "Gemini"}
    /\ rt_context \in (IF rt_op = "answer" THEN Contexts ELSE {"docs"})
    /\ rt_pc = "call"
    /\ rt_attempt = 0
    /\ rt_outcomes = <<>>
    /\ rt_slept = 0
    /\ rt_result = "none"

RetryIdle ==
    /\ rt_op = "analyze"
    /\ rt_model = "OLLAMA"
    /\ rt_context = "docs"
    /\ rt_pc = "idle"
    /\ rt_attempt = 0
    /\ rt_outcomes = <<>>
    /\ rt_slept = 0
    /\ rt_result = "none"

retryFrame == UNCHANGED <<chunkVars, detVars, storeVars, sessVars, scanVars, queryVars, embedVars>>

\* Entry of the call: the context test of generate_rag_response, the prompt,
\* the choice of the backend
BackendEnter ==
    /\ rt_pc = "call"
    /\ IF rt_op = "answer" /\ RefusesContext(rt_context)
       THEN rt_pc' = "returned" /\ rt_result' = "No related files found in the scan results."
       ELSE /\ rt_pc' = (IF rt_model = "OLLAMA" THEN "ollama" ELSE "loop")
            /\ rt_result' = rt_result
    /\ UNCHANGED <<rt_op, rt_model, rt_context, rt_attempt, rt_outcomes, rt_slept>>
    /\ retryFrame

\* ollama_client.chat.completions.create(...) inside try/except Exception
\* (analyze_with_ollama) or inside the outer try of generate_rag_response
OllamaCall ==
    /\ rt_pc = "ollama"
    /\ \E o \in OllamaOutcomes :
          /\ rt_outcomes' = Append(rt_outcomes, o)
          /\ rt_result' =
                IF o.kind = "text" THEN "text"
                ELSE IF rt_op = "analyze" THEN "Analysis failed"
                ELSE "Response generation failed"
    /\ rt_pc' = "returned"
    /\ UNCHANGED <<rt_op, rt_model, rt_context, rt_attempt, rt_slept>>
    /\ retryFrame

\* What the except branch of the retry loop does with exception message msg on
\* iteration attempt: <<next position, result, seconds slept>>
GeminiOnError(op, attempt, msg) ==
    IF IsQuotaError(msg)
    THEN IF ShouldBackoff(op, attempt)
         THEN \* st.warning; time.sleep(60); continue
              IF attempt + 1 < MaxRetriesOf(op)
              THEN <<"loop", "none", BackoffSeconds>>
              ELSE \* range(max_retries) is exhausted: the function ends, None
                   <<"returned", "None", BackoffSeconds>>
         ELSE <<"returned",
                IF op = "analyze" THEN "Analysis failed due to quota limit"
                ELSE "Response generation failed due to quota limit", 0>>
    ELSE <<"returned",
           IF op = "analyze" THEN "Analysis failed" ELSE "Response generation failed", 0>>

\* One iteration of "for attempt in range(max_retries)"
GeminiAttempt ==
    /\ rt_pc = "loop"
    /\ rt_attempt < MaxRetriesOf(rt_op)
    /\ \E o \in GeminiOutcomes :
          /\ rt_outcomes' = Append(rt_outcomes, o)
          /\ IF o.kind = "text"
             THEN rt_pc' = "returned" /\ rt_result' = "text" /\ rt_slept' = rt_slept
             ELSE IF o.kind = "empty"
             THEN /\ rt_pc' = "returned"
                  /\ rt_result' = (IF rt_op = "analyze" THEN "No vulnerabilities detected"
                                    ELSE "No response generated by Gemini")
                  /\ rt_slept' = rt_slept
             ELSE LET h == GeminiOnError(rt_op, rt_attempt, o.msg)
                  IN  /\ rt_pc' = h[1]
                      /\ rt_result' = h[2]
                      /\ rt_slept' = rt_slept + h[3]
    /\ rt_attempt' = (IF rt_pc' = "loop" THEN rt_attempt + 1 ELSE rt_attempt)
    /\ UNCHANGED <<rt_op, rt_model, rt_context>>
    /\ retryFrame

RetryNext == BackendEnter \/ OllamaCall \/ GeminiAttempt

-----------------------------------------------------------------------------
(* Paths, file contents and analysis texts of the scans                    *)

D_a == <<"a">>
D_ab == <<"a", "b">>
D_e == <<"e">>

P_a_f == <<"a", "/", "f">>
P_a_fb == <<"a", "/", "f", ".", "b">>
P_ab_g == <<"a", "b", "/", "g">>

Directories == {D_a, D_ab, D_e}

\* os.walk(directory) with os.path.join(root, file): directory a holds f and
\* f.b, its sibling ab holds g, directory e holds no file
Walk(directory) ==
    CASE directory = D_a -> <<P_a_f, P_a_fb>>
      [] directory = D_ab -> <<P_ab_g>>
      [] OTHER -> <<>>

\* Length of the long file content: more than one chunk of the default size
LongLen == 1001

\* What load_file_content returns: a preprocessed text, named
ContentText(c) ==
    CASE c = "c_sh" -> JoinWords(<<"x", "sh">>)
      [] c = "c_long" -> [i \in 1..LongLen |-> "x"]
      [] OTHER -> <<>>

ContentIds == {"c_sh", "c_long"}

\* Outcomes of load_file_content(file_path): an exception of open() other
\* than UnicodeDecodeError leaves the function, "" is a file without tokens
LoadOutcomes == {"raise", "empty"} \cup ContentIds

T_FAILED == "Analysis failed"

T_NOVULN == "No vulnerabilities detected"

\* What analyze_with_ollama / analyze_with_gemini return, named
AnalysisText(a) ==
    CASE a = "an_failed" -> <<T_FAILED, ":", SP, "e">>
      [] a = "an_none" -> <<T_NOVULN, SP, "i", "n">>
      [] a = "an_shell" -> RenderBlocks(<<BlockDesc(N_shell, "High", "text", TRUE)>>)
      [] a = "an_mixed" -> RenderBlocks(<<BlockDesc(N_shell, "High", "text", TRUE)>>)
                           \o <<NL, T_NOVULN, SP, "i", "n", SP, "x">>
      [] a = "an_dup" -> <<"o", "k", NL>> \o
                         RenderBlocks(<<BlockDesc(N_leak, "Low", "text", TRUE),
                                        BlockDesc(N_leak, "Low", "text", FALSE)>>)
      [] OTHER -> <<>>

\* The analyses the backend gives for a content
AnalysesFor(c) ==
    IF c = "c_sh" THEN {"an_failed", "an_none", "an_shell", "an_mixed"}
    ELSE {"an_failed", "an_dup"}

\* "Analysis failed" in analysis or "No vulnerabilities detected" in analysis
AnalysisSkipped(a) ==
    Contains(AnalysisText(a), <<T_FAILED>>) \/ Contains(AnalysisText(a), <<T_NOVULN>>)

\* detect_owasp_risks(analysis, content) on named texts
DetectedRisks(a, c) == detect_owasp_risks(AnalysisText(a), ContentText(c))

-----------------------------------------------------------------------------
(* database.py: the relational store                                       *)

\* str(risks) and eval(row['risks']): the repr of a list of dicts of strings
\* and its evaluation
Repr(risks) == <<"repr", risks>>

Eval(text) == text[2]

\* SQLite's "file_path LIKE pattern": % is any run, _ any character, letters
\* compare without case
RECURSIVE Like(_, _)
Like(str, pat) ==
    IF pat = <<>> THEN str = <<>>
    ELSE IF Head(pat) = "%"
         THEN Like(str, Tail(pat)) \/ (str # <<>> /\ Like(Tail(str), pat))
    ELSE IF str = <<>> THEN FALSE
    ELSE /\ (Head(pat) = "_" \/ LowerSym(Head(pat)) = LowerSym(Head(str)))
         /\ Like(Tail(str), Tail(pat))

CleanNothing(table, directory) == table

\* DELETE FROM scan_results WHERE file_path LIKE ?, bound to '{directory}%'
clean_previous_data(table, directory) ==
    SelectSeq(table, LAMBDA row : ~Like(row.file_path, directory \o <<"%">>))

InsertNothing(table, file_path, content, risks, analysis) == table

\* INSERT INTO scan_results (file_path, content, risks, analysis)
store_in_database(table, file_path, content, risks, analysis) ==
    Append(table, [file_path |-> file_path, content |-> content,
                   risks |-> Repr(risks), analysis |-> analysis])

ZeroCount == [Low |-> 0, Medium |-> 0, High |-> 0]

AddRiskOnce(rc, risk) ==
    LET base == IF risk.risk_name \in DOMAIN rc THEN rc
                ELSE rc @@ (risk.risk_name :> ZeroCount)
    IN  [base EXCEPT ![risk.risk_name][risk.severity] = 1]

\* if risk_name not in risk_count: ...; risk_count[risk_name][severity] += 1
AddRisk(rc, risk) ==
    LET base == IF risk.risk_name \in DOMAIN rc THEN rc
                ELSE rc @@ (risk.risk_name :> ZeroCount)
    IN  [base EXCEPT ![risk.risk_name][risk.severity] = @ + 1]

\* for risk in detected_risks: ...
RECURSIVE CountRisks(_, _)
CountRisks(rc, risks) ==
    IF risks = <<>> THEN rc ELSE CountRisks(AddRisk(rc, Head(risks)), Tail(risks))

EmptyCount == [n \in {} |-> ZeroCount]

RECURSIVE CountRows(_, _)
CountRows(rc, rows) ==
    IF rows = <<>> THEN rc
    ELSE CountRows(CountRisks(rc, Eval(Head(rows).risks)), Tail(rows))

\* load_risk_count_from_db()
load_risk_count_from_db(table) == CountRows(EmptyCount, table)

\* load_scan_results_from_db()
load_scan_results_from_db(table) ==
    [i \in DOMAIN table |->
        [file_path |-> table[i].file_path, risks |-> Eval(table[i].risks),
         analysis |-> table[i].analysis]]

-----------------------------------------------------------------------------
(* database.py: the vector store                                           *)

\* file_path.replace('\\', '/')
NormalizePath(path) == [i \in DOMAIN path |-> IF path[i] = "\\" THEN "/" ELSE path[i]]

\* os.path.basename(file_path)
RECURSIVE Basename(_)
Basename(path) ==
    IF \E i \in DOMAIN path : path[i] = "/"
    THEN Basename(SubSeq(path, (CHOOSE i \in DOMAIN path : path[i] = "/"
                                   /\ \A j \in DOMAIN path : path[j] = "/" => j <= i) + 1,
                         Len(path)))
    ELSE path

\* f"{i}" for the chunk numbers that occur
IntToStr(i) == Digits[i + 1]

ChunkId(normalized_path, i) == normalized_path \o <<"_chunk_", IntToStr(i)>>

\* The documents store_in_vector_db builds for one file: one per chunk of the
\* content and the summary document, with the metadata of lines 64-70
VectorDocs(file_path, content, analysis) ==
    LET np     == NormalizePath(file_path)
        risks  == Repr(DetectedRisks(analysis, content))
        fname  == Lower(Basename(file_path))
        chunks == chunk_text(ContentText(content), DefaultChunkSize, DefaultOverlap)
    IN  { [id |-> ChunkId(np, i), file_path |-> file_path, filename |-> fname,
           risks |-> risks, chunk_id |-> i,
           doc |-> <<"chunk", content, IntToStr(i)>>] : i \in 0..(Len(chunks) - 1) }
        \cup
        { [id |-> np, file_path |-> file_path, filename |-> fname,
           risks |-> risks, chunk_id |-> -1,
           doc |-> <<"summary", content, analysis>>] }

VectorOutcomes == {"ok", "fail_get", "fail_add"}

\* to_delete = [id for id in existing_ids if id.startswith(normalized_path)]
ToDelete(coll, file_path) ==
    {d \in coll : StartsWith(d.id, NormalizePath(file_path))}

\* store_in_vector_db: the collection it leaves.  "ok": it returns; "fail_get":
\* collection.get or collection.delete raises; "fail_add": the embedding or
\* collection.add raises, after the deletion.  Every failure is re-raised.
store_in_vector_db(coll, file_path, content, analysis, outcome) ==
    CASE outcome = "fail_get" -> coll
      [] outcome = "fail_add" -> coll \ ToDelete(coll, file_path)
      [] OTHER -> (coll \ ToDelete(coll, file_path))
                     \cup VectorDocs(file_path, content, analysis)

\* clean_database(): the rows go; the collection is emptied unless the vector
\* store fails, which is reported and swallowed
clean_database_rows(table) == <<>>

clean_database_docs(coll, vector_ok) == IF vector_ok THEN {} ELSE coll

-----------------------------------------------------------------------------
(* main.py and analysis.scan_directory                                     *)

NoDir == <<>>

Event(file, outcome, content, analysis, vec) ==
    [file |-> file, outcome |-> outcome, content |-> content,
     analysis |-> analysis, vec |-> vec]

NoEvent == Event(<<>>, "none", "", "", "not_called")

\* The value given to progress_bar.progress: n / d as a fraction in lowest
\* terms where it is 1 (progress(1.0)); <<0, 0>> when no bar was made
Frac(n, d) == IF n = d THEN <<1, 1>> ELSE <<n, d>>

NoBar == <<0, 0>>

\* The session and the scan locals of a fresh process (reset_databases has
\* emptied the table)
SessionInit ==
    /\ db = <<>>
    /\ sess_results = <<>>
    /\ sess_risk = EmptyCount
    /\ show_confirm = FALSE
    /\ scan_pc = "idle"
    /\ scan_dir = NoDir
    /\ scan_files = <<>>
    /\ scan_idx = 0
    /\ results = <<>>
    /\ risk_count = EmptyCount
    /\ processed_files = 0
    /\ progress = NoBar
    /\ prev_dir = NoDir
    /\ stored_now = {}
    /\ last = NoEvent

\* After reset_databases(force_reset=True): both stores empty
ScanInit == SessionInit /\ vdb = {}

scanFrame == UNCHANGED <<chunkVars, detVars, retryVars, queryVars, embedVars>>

\* Lines 14-17 of main(), run at the top of every script run
ReloadedResults ==
    IF sess_results = <<>> THEN load_scan_results_from_db(db) ELSE sess_results

ReloadedRisk ==
    IF sess_risk = EmptyCount THEN load_risk_count_from_db(db) ELSE sess_risk

\* scan_directory(directory, model_type) up to its loop, called from main()
\* with the stores as table and coll and the session as sr and rk.  With no
\* file it returns ([], {}) at once, which main() puts into the session.
BeginScan(directory, table, coll, sr, rk) ==
    /\ db' = clean_previous_data(table, directory)
    /\ vdb' = coll
    /\ scan_dir' = directory
    /\ prev_dir' = scan_dir
    /\ scan_files' = Walk(directory)
    /\ scan_idx' = 0
    /\ results' = <<>>
    /\ risk_count' = EmptyCount
    /\ processed_files' = 0
    /\ stored_now' = {}
    /\ last' = NoEvent
    /\ IF Walk(directory) = <<>>
       THEN /\ scan_pc' = "nofiles"
            /\ progress' = NoBar
            /\ sess_results' = <<>>
            /\ sess_risk' = EmptyCount
       ELSE /\ scan_pc' = "perfile"
            /\ progress' = Frac(0, Len(Walk(directory)))
            /\ sess_results' = sr
            /\ sess_risk' = rk

UiReady == scan_pc # "perfile"

\* "Start Security Scan": with results in the session it asks for
\* confirmation, without it scans
PressScan ==
    /\ UiReady
    /\ \E directory \in Directories :
          IF ReloadedResults # <<>>
          THEN /\ show_confirm' = TRUE
               /\ sess_results' = ReloadedResults
               /\ sess_risk' = ReloadedRisk
               /\ UNCHANGED <<storeVars, scanVars>>
          ELSE /\ BeginScan(directory, db, vdb, ReloadedResults, ReloadedRisk)
               /\ UNCHANGED show_confirm
    /\ scanFrame

\* "Yes, clear previous results": clean_database(), the session emptied, scan
PressYes ==
    /\ UiReady
    /\ show_confirm
    /\ \E directory \in Directories, vector_ok \in BOOLEAN :
          BeginScan(directory, clean_database_rows(db),
                    clean_database_docs(vdb, vector_ok), <<>>, EmptyCount)
    /\ show_confirm' = FALSE
    /\ scanFrame

\* "No, keep previous results": scan
PressNo ==
    /\ UiReady
    /\ show_confirm
    /\ \E directory \in Directories :
          BeginScan(directory, db, vdb, ReloadedResults, ReloadedRisk)
    /\ show_confirm' = FALSE
    /\ scanFrame

\* Any other script run: only the reload of lines 14-17 acts
Rerun ==
    /\ UiReady
    /\ sess_results' = ReloadedResults
    /\ sess_risk' = ReloadedRisk
    /\ UNCHANGED <<show_confirm, storeVars, scanVars>>
    /\ scanFrame

RollBackRow(table_before, table_after) == table_before

\* store_in_vector_db raised after store_in_database returned: the except
\* block of the loop reports the error; the committed row stays
AfterVectorError(table_before, table_after) == table_after

ProcessedAfterSuccessOnly(outcome, processed) ==
    IF outcome = "stored" THEN processed + 1 ELSE processed

\* processed_files += 1 on each way through the loop body: "if not content",
\* the skipped analysis, the end of the try block and the except block
ProcessedAfter(outcome, processed) == processed + 1

AfterFileErrorAbort == "aborted"

\* except Exception as e: st.error(...); processed_files += 1; ...; continue:
\* the loop goes on
AfterFileError == "perfile"

\* One iteration of "for idx, file_path in enumerate(files)", with what the
\* file read, the backend and the two stores do
ProcessFile ==
    /\ scan_pc = "perfile"
    /\ scan_idx < Len(scan_files)
    /\ LET file == scan_files[scan_idx + 1]
       IN  \E ld \in LoadOutcomes :
             IF ld \in {"raise", "empty"}
             THEN \* except Exception / "if not content": continue
                  /\ last' = Event(file, IF ld = "raise" THEN "load_error" ELSE "empty",
                                   "", "", "not_called")
                  /\ UNCHANGED <<db, vdb, results, risk_count, stored_now>>
             ELSE \E an \in AnalysesFor(ld) :
                  IF AnalysisSkipped(an)
                  THEN /\ last' = Event(file, "skipped_analysis", ld, an, "not_called")
                       /\ UNCHANGED <<db, vdb, results, risk_count, stored_now>>
                  ELSE LET detected_risks == DetectedRisks(an, ld)
                       IN  /\ risk_count' = CountRisks(risk_count, detected_risks)
                           /\ \E dbo \in {"ok", "raise"} :
                                 IF dbo = "raise"
                                 THEN /\ last' = Event(file, "db_error", ld, an, "not_called")
                                      /\ UNCHANGED <<db, vdb, results, stored_now>>
                                 ELSE /\ stored_now' = stored_now \cup {file}
                                      /\ \E vo \in VectorOutcomes :
                                            /\ db' = (IF vo = "ok"
                                                      THEN store_in_database(db, file, ld, detected_risks, an)
                                                      ELSE AfterVectorError(db,
                                                              store_in_database(db, file, ld, detected_risks, an)))
                                            /\ vdb' = store_in_vector_db(vdb, file, ld, an, vo)
                                            /\ IF vo = "ok"
                                               THEN /\ results' = Append(results,
                                                        [file_path |-> file,
                                                         risks |-> detected_risks,
                                                         analysis |-> an])
                                                    /\ last' = Event(file, "stored", ld, an, "returned")
                                               ELSE /\ results' = results
                                                    /\ last' = Event(file, "vec_error", ld, an, "raised")
    \* processed_files += 1; progress_bar.progress(processed_files / total_files)
    /\ processed_files' = ProcessedAfter(last'.outcome, processed_files)
    /\ progress' = Frac(processed_files', Len(scan_files))
    /\ scan_idx' = scan_idx + 1
    /\ scan_pc' = (IF last'.outcome \in {"load_error", "db_error", "vec_error"}
                   THEN AfterFileError ELSE "perfile")
    /\ UNCHANGED <<scan_dir, scan_files, prev_dir, sessVars>>
    /\ scanFrame

\* After the loop: progress_bar.progress(1.0), "Scan completed!", return
\* results, risk_count; main() puts both into the session
ScanComplete ==
    /\ scan_pc = "perfile"
    /\ scan_idx = Len(scan_files)
    /\ progress' = Frac(1, 1)
    /\ scan_pc' = "completed"
    /\ sess_results' = results
    /\ sess_risk' = risk_count
    /\ UNCHANGED <<show_confirm, storeVars, scan_dir, scan_files, scan_idx, results,
                   risk_count, processed_files, prev_dir, stored_now, last>>
    /\ scanFrame

ScanNext == PressScan \/ PressYes \/ PressNo \/ Rerun \/ ProcessFile \/ ScanComplete

ScanIdle == ScanInit

-----------------------------------------------------------------------------
(* database.query_vectors                                                  *)

\* n_results=5
NResults == 5

Files == {P_a_f, P_a_fb, P_ab_g}

\* The collection after scans that stored the files of S
StoreOf(S) == UNION {VectorDocs(f, "c_sh", "an_shell") : f \in S}

Q_f == <<"f">>
Q_x_f == <<"x", SP, "f">>
Q_fb_x == <<"f", ".", "b", SP, "x">>
Q_G == <<"G", "?">>
Q_g_f == <<"g", SP, "f">>
Q_none == <<"?">>

Questions == {Q_f, Q_x_f, Q_fb_x, Q_G, Q_g_f, Q_none}

NoTarget == <<>>

\* The end of the run of word characters that starts at i
RECURSIVE WordEnd(_, _)
WordEnd(q, i) ==
    IF i < Len(q) /\ IsWordChar(q[i + 1]) THEN WordEnd(q, i + 1) ELSE i

\* re.search(r'\b(\w+(?:\.\w+)?)\b', question): the first word of the
\* question, with one ".word" after it when there is one; lowercased;
\* NoTarget when the question has no word character
TargetFilename(question) ==
    LET starts == {i \in DOMAIN question : IsWordChar(question[i])}
    IN  IF starts = {} THEN NoTarget
        ELSE LET b == CHOOSE i \in starts : \A j \in starts : i <= j
                 e == WordEnd(question, b)
                 x == IF e + 2 <= Len(question) /\ question[e + 1] = "."
                         /\ IsWordChar(question[e + 2])
                      THEN WordEnd(question, e + 2) ELSE e
             IN  Lower(SubSeq(question, b, x))

FilterNothing(docs, target, filtered) == <<>>

\* The loop over zip(documents, metadatas) with its break
RECURSIVE FilterDocs(_, _, _)
FilterDocs(docs, target, filtered) ==
    IF docs = <<>> THEN filtered
    ELSE LET stored_filename == Lower(Head(docs).filename)
         IN  IF target = NoTarget THEN FilterDocs(Tail(docs), target, filtered)
             ELSE IF target = stored_filename THEN <<Head(docs)>>
             ELSE IF Contains(stored_filename, target) \/ Contains(target, stored_filename)
                  THEN FilterDocs(Tail(docs), target, Append(filtered, Head(docs)))
             ELSE FilterDocs(Tail(docs), target, filtered)

Marker == [kind |-> "marker", docs |-> <<>>]

\* query_vectors(question), given whether the embedding and the query succeed
\* and the documents the collection ranks nearest: [filtered_docs], or
\* [results['documents'][0]], or ["No related files found."]
query_vectors(question, ok, ranked) ==
    IF ~ok THEN Marker
    ELSE LET filtered_docs == FilterDocs(ranked, TargetFilename(question), <<>>)
         IN  IF filtered_docs # <<>> THEN [kind |-> "docs", docs |-> filtered_docs]
             ELSE [kind |-> "docs", docs |-> ranked]

\* What collection.query(n_results=5) may return: any ranking of
\* min(5, count) documents of the collection
Rankings(coll) ==
    LET k == Min(NResults, Cardinality(coll))
    IN  {r \in [1..k -> coll] : \A i, j \in 1..k : r[i] = r[j] => i = j}

QueryInit ==
    /\ vdb \in {StoreOf(S) : S \in SUBSET Files}
    /\ q_question \in Questions
    /\ q_pc = "call"
    /\ q_ranked = <<>>
    /\ q_result = [kind |-> "none", docs |-> <<>>]

QueryIdle ==
    /\ q_question = <<>>
    /\ q_pc = "idle"
    /\ q_ranked = <<>>
    /\ q_result = [kind |-> "none", docs |-> <<>>]

QueryCall ==
    /\ q_pc = "call"
    /\ \E ok \in BOOLEAN, ranked \in Rankings(vdb) :
          /\ q_ranked' = (IF ok THEN ranked ELSE <<>>)
          /\ q_result' = query_vectors(q_question, ok, ranked)
    /\ q_pc' = "done"
    /\ UNCHANGED <<q_question, storeVars, sessVars, scanVars, chunkVars, detVars, retryVars,
                 embedVars>>

QueryNext == QueryCall

-----------------------------------------------------------------------------
(* embedding.OllamaEmbeddingFunction                                       *)

\* Largest number of documents of one call
MaxDocs == 3

EmbedDocs == {"d0", "d1", "d2"}

\* The vector the backend computes for a document
BackendVector(doc) ==
    CASE doc = "d0" -> <<0, 0>>
      [] doc = "d1" -> <<3, 4>>
      [] OTHER -> <<0, 2>>

\* An item of response.data without a usable embedding
BadItem == <<>>

\* What self.client.embeddings.create(...) does: it raises, or it answers
\* with one item per input in input order, or with such a list in which one
\* item is unusable
BackendResponses(input) ==
    LET data == [i \in DOMAIN input |-> BackendVector(input[i])]
    IN  {[kind |-> "raise", data |-> <<>>], [kind |-> "data", data |-> data]}
        \cup {[kind |-> "data", data |-> [data EXCEPT ![k] = BadItem]] : k \in DOMAIN data}

SumSq(v) == IF v = <<>> THEN 0 ELSE v[1] * v[1] + v[2] * v[2]

\* np.linalg.norm, for the vectors of BackendVector
L2Norm(v) == CHOOSE n \in 0..SumSq(v) : n * n = SumSq(v)

\* _normalize_embedding: a float is written <<numerator, denominator>>
normalize_embedding(embedding) ==
    IF L2Norm(embedding) = 0
    THEN [i \in DOMAIN embedding |-> <<embedding[i], 1>>]
    ELSE [i \in DOMAIN embedding |-> <<embedding[i], L2Norm(embedding)>>]

OnEmbeddingFailureNothing(input) == <<>>

\* except Exception: st.error(...); return [[] for _ in input]
OnEmbeddingFailure(input) == [i \in DOMAIN input |-> <<>>]

\* __call__(input), given what the backend did
EmbeddingCall(input, resp) ==
    IF resp.kind = "raise" \/ \E i \in DOMAIN resp.data : resp.data[i] = BadItem
    THEN OnEmbeddingFailure(input)
    ELSE [i \in DOMAIN resp.data |-> normalize_embedding(resp.data[i])]

EmbedInit ==
    /\ em_input \in UNION {[1..k -> EmbedDocs] : k \in 0..MaxDocs}
    /\ em_resp = [kind |-> "none", data |-> <<>>]
    /\ em_pc = "call"
    /\ em_out = <<>>

EmbedIdle ==
    /\ em_input = <<>>
    /\ em_resp = [kind |-> "none", data |-> <<>>]
    /\ em_pc = "idle"
    /\ em_out = <<>>

EmbedCall ==
    /\ em_pc = "call"
    /\ \E resp \in BackendResponses(em_input) :
          /\ em_resp' = resp
          /\ em_out' = EmbeddingCall(em_input, resp)
    /\ em_pc' = "done"
    /\ UNCHANGED <<em_input, chunkVars, detVars, retryVars, storeVars, sessVars,
                   scanVars, queryVars>>

EmbedNext == EmbedCall

-----------------------------------------------------------------------------
(* Specifications                                                          *)

Init == ScanInit /\ ChunkIdle /\ DetectIdle /\ RetryIdle /\ QueryIdle /\ EmbedIdle

Next == ScanNext

\* The application: the session, the scans and the two stores
Spec == Init /\ [][Next]_vars

\* A started scan is a synchronous call: its loop and its return are taken
FairSpec == Spec /\ WF_vars(ProcessFile) /\ WF_vars(ScanComplete)

InitChunk == ChunkInit /\ DetectIdle /\ RetryIdle /\ ScanIdle /\ QueryIdle /\ EmbedIdle

\* One call of chunk_text
SpecChunk == InitChunk /\ [][ChunkNext]_vars

InitDetect == DetectInit /\ ChunkIdle /\ RetryIdle /\ ScanIdle /\ QueryIdle /\ EmbedIdle

\* One call of detect_owasp_risks
SpecDetect == InitDetect /\ [][DetectNext]_vars

InitRetry == RetryInit /\ ChunkIdle /\ DetectIdle /\ ScanIdle /\ QueryIdle /\ EmbedIdle

\* One call of analyze or answer
SpecRetry == InitRetry /\ [][RetryNext]_vars

InitQuery == QueryInit /\ SessionInit /\ ChunkIdle /\ DetectIdle /\ RetryIdle /\ EmbedIdle

\* One call of query_vectors on a collection that scans have filled
SpecQuery == InitQuery /\ [][QueryNext]_vars

InitEmbed ==
    EmbedInit /\ ChunkIdle /\ DetectIdle /\ RetryIdle /\ ScanIdle /\ QueryIdle

\* One call of the embedding adapter
SpecEmbed == InitEmbed /\ [][EmbedNext]_vars

-----------------------------------------------------------------------------
(* Claims about the scans and the stores                                   *)

RowsOf(table, file_path) ==
    Cardinality({i \in DOMAIN table : table[i].file_path = file_path})

\* C1: when scan_directory has run on the directory it ran on before, the
\* table holds exactly one row for each file this run analysed and inserted,
\* and no row of the earlier run for any other file of the directory.
C1_RescanReplaces ==
    (scan_pc = "completed" /\ prev_dir = scan_dir)
    => \A i \in DOMAIN scan_files :
          RowsOf(db, scan_files[i]) = (IF scan_files[i] \in stored_now THEN 1 ELSE 0)

\* C1 witness: a second run on directory a has ended; it inserted f.b and
\* skipped f, and the table holds the row of f.b alone.
C1_Witness ==
    /\ scan_pc = "completed" /\ prev_dir = scan_dir /\ scan_dir = D_a
    /\ stored_now = {P_a_fb}
    /\ Len(db) = 1

\* C2 as claimed: after every scan the RiskCount that scan_directory returned
\* and the session keeps is the fold of the findings of all rows of the
\* table, what load_risk_count_from_db computes.
C2_RiskCountFromStore ==
    scan_pc \in {"completed", "nofiles"} => sess_risk = load_risk_count_from_db(db)

IdsOf(coll, file_path) == {d.id : d \in {e \in coll : e.file_path = file_path}}

\* {path}_chunk_0 .. {path}_chunk_{n-1} and the summary id {path}
NewIdSet(file_path, content) ==
    LET np == NormalizePath(file_path)
        n  == Len(chunk_text(ContentText(content), DefaultChunkSize, DefaultOverlap))
    IN  {ChunkId(np, i) : i \in 0..(n - 1)} \cup {np}

\* C3 as claimed: whenever store_in_vector_db returns or raises for a file,
\* the collection holds the complete previous id set of the file or its
\* complete new id set.
C3_VectorIdsUnit ==
    [][(scan_idx' = scan_idx + 1 /\ last'.vec \in {"returned", "raised"})
        => IdsOf(vdb', last'.file)
              \in {IdsOf(vdb, last'.file), NewIdSet(last'.file, last'.content)}]_vars

ScanReturned == scan_pc \in {"completed", "nofiles"}

\* C5 as claimed: every run of scan_directory that returns has visited every
\* enumerated file and reports 100% progress.
C5_AsClaimed ==
    ScanReturned => progress = <<1, 1>> /\ processed_files = Len(scan_files)

\* C5 amended: every run of scan_directory that enumerates at least one file
\* visits every file, whatever happens to single files, ends its loop only
\* after the last file, and then reaches Completed with 100% progress; a run
\* on a directory without files returns at once and reports no progress.
C5_ScanCompletes ==
    /\ [](scan_pc = "completed"
            => /\ progress = <<1, 1>>
               /\ scan_idx = Len(scan_files)
               /\ processed_files = Len(scan_files))
    /\ [][scan_pc = "perfile" /\ scan_pc' # "perfile"
            => scan_idx = Len(scan_files) /\ scan_pc' = "completed"]_vars
    /\ [](scan_pc = "perfile" => <>(scan_pc = "completed"))
    /\ [](scan_pc = "nofiles" => progress = NoBar /\ scan_files = <<>>)

\* C5 witness: a run over two files is Completed although its first file was
\* not stored: the second file was visited and stored.
C5_Witness ==
    /\ scan_pc = "completed" /\ Len(scan_files) = 2
    /\ last.file = scan_files[2] /\ last.outcome = "stored"
    /\ Len(results) = 1 /\ progress = <<1, 1>>

-----------------------------------------------------------------------------
(* Claims about the hosted backend                                         *)

QuotaFailure(o) == o.kind = "exc" /\ o.msg \in {M_quota, M_Quota}

QuotaFailuresAmong(outcomes, k) ==
    Cardinality({i \in DOMAIN outcomes : i <= k /\ QuotaFailure(outcomes[i])})

FailureStrings ==
    {"Analysis failed", "Analysis failed due to quota limit",
     "Response generation failed", "Response generation failed due to quota limit"}

\* C6: on the hosted backend analyze and answer make at most 3 backend
\* attempts; every attempt but the last ended in a quota failure and was
\* followed by one 60-second wait; an attempt that succeeds ends the call; the
\* third quota failure is not waited for and gives the quota failure string.
C6_GeminiRetry ==
    rt_model = "Gemini" =>
        /\ Len(rt_outcomes) <= 3
        /\ \A i \in 1..(Len(rt_outcomes) - 1) : QuotaFailure(rt_outcomes[i])
        /\ rt_slept = 60 * QuotaFailuresAmong(rt_outcomes, 2)
        /\ (rt_pc = "loop" =>
              /\ Len(rt_outcomes) < 3
              /\ \A i \in DOMAIN rt_outcomes : QuotaFailure(rt_outcomes[i]))
        /\ (rt_pc = "returned" /\ rt_outcomes # <<>> =>
              LET o == rt_outcomes[Len(rt_outcomes)]
              IN  /\ (o.kind = "text" => rt_result = "text")
                  /\ (QuotaFailure(o) =>
                        /\ Len(rt_outcomes) = 3
                        /\ rt_result \in {"Analysis failed due to quota limit",
                                          "Response generation failed due to quota limit"})
                  /\ (o.kind = "exc" => rt_result \in FailureStrings))
        /\ rt_pc \in {"call", "loop", "returned"}

\* C6 witness: answer has returned the quota failure string after three quota
\* failures and two waits.
C6_Witness ==
    /\ rt_model = "Gemini" /\ rt_op = "answer" /\ rt_pc = "returned"
    /\ Len(rt_outcomes) = 3
    /\ \A i \in 1..3 : QuotaFailure(rt_outcomes[i])
    /\ rt_slept = 120
    /\ rt_result = "Response generation failed due to quota limit"

-----------------------------------------------------------------------------
(* Claims about query_vectors                                              *)

\* The words of a question, split at spaces
RECURSIVE Tokens(_, _)
Tokens(q, cur) ==
    IF q = <<>> THEN (IF cur = <<>> THEN {} ELSE {cur})
    ELSE IF Head(q) = SP THEN (IF cur = <<>> THEN {} ELSE {cur}) \cup Tokens(Tail(q), <<>>)
    ELSE Tokens(Tail(q), Append(cur, Head(q)))

\* C4 as claimed: when the question holds, at any position, a token equal
\* to the lowercased filename of a stored chunk, query_vectors returns only
\* chunks of that file.
C4_ExactMatchPriority ==
    (q_pc = "done" /\ q_ranked # <<>>)
    => \A t \in Tokens(q_question, <<>>) :
          (\E d \in vdb : d.filename = Lower(t))
          => /\ q_result.kind = "docs"
             /\ \A i \in DOMAIN q_result.docs : q_result.docs[i].filename = Lower(t)

-----------------------------------------------------------------------------
(* Claims about generate_rag_response and the embedding adapter           *)

\* C11 as claimed: when the context handed to generate_rag_response is empty
\* or is the "no related files found" result of query_vectors, the call
\* returns the refusal "No related files found in the scan results." on
\* either backend, whatever the backend would answer.
C11_RefusesWithoutContext ==
    (rt_op = "answer" /\ rt_pc = "returned" /\ rt_context \in {"empty", "marker"})
    => /\ rt_result = "No related files found in the scan results."
       /\ rt_outcomes = <<>>

\* C12: for every input list, when the backend fails the adapter returns a
\* list as long as the input whose every element is the empty vector; when
\* the backend succeeds it returns one vector per input, the i-th being the
\* normalised vector of the i-th input.
C12_OneVectorPerInput ==
    em_pc = "done" =>
        /\ Len(em_out) = Len(em_input)
        /\ IF em_resp.kind = "data" /\ \A i \in DOMAIN em_resp.data : em_resp.data[i] # BadItem
           THEN \A i \in DOMAIN em_input :
                   em_out[i] = normalize_embedding(BackendVector(em_input[i]))
           ELSE \A i \in DOMAIN em_out : em_out[i] = <<>>

\* C12 witness: a call with three documents has returned three empty vectors
\* after the backend raised.
C12_Witness ==
    /\ em_pc = "done" /\ Len(em_input) = 3 /\ em_resp.kind = "raise"
    /\ em_out = <<<<>>, <<>>, <<>>>>

-----------------------------------------------------------------------------
(* Claims about one iteration of the scan loop                             *)

\* The last iteration had a non-empty content and an analysis that is neither
\* a failure string nor a "no vulnerabilities" answer
LastAnalysed == last.outcome \in {"stored", "db_error", "vec_error"}

\* What the claim expects of the stores and of results for the last file
LastPersisted ==
    /\ RowsOf(db, last.file) = 1
    /\ \A i \in DOMAIN db :
          db[i].file_path = last.file
          => /\ db[i].content = last.content /\ db[i].analysis = last.analysis
             /\ db[i].risks = Repr(DetectedRisks(last.analysis, last.content))
    /\ IdsOf(vdb, last.file) = NewIdSet(last.file, last.content)
    /\ NormalizePath(last.file) \in IdsOf(vdb, last.file)
    /\ Cardinality(IdsOf(vdb, last.file)) >= 2
    /\ results # <<>>
    /\ results[Len(results)] =
          [file_path |-> last.file,
           risks |-> DetectedRisks(last.analysis, last.content),
           analysis |-> last.analysis]

\* C13 as claimed: for every file with non-empty content whose analysis is
\* neither a failure string nor a "no vulnerabilities" answer, the scan
\* writes exactly one row for the file, its chunk documents and its summary
\* document, and reports its findings.
C13_AsClaimed == LastAnalysed => LastPersisted

\* C13 amended: the same for every such file for which store_in_database and
\* store_in_vector_db both succeed; when the insert raises nothing is written
\* for the file, and when the vector store raises the row stays but the
\* findings are not reported.
C13_PersistsAnalysedFile ==
    /\ (last.outcome = "stored" => LastPersisted)
    /\ (last.outcome = "db_error"
          => RowsOf(db, last.file) = 0
             /\ \A i \in DOMAIN results : results[i].file_path # last.file)
    /\ (last.outcome = "vec_error"
          => RowsOf(db, last.file) = 1
             /\ \A i \in DOMAIN results : results[i].file_path # last.file)

\* C13 witness: the file with the long content has been stored: one row, two
\* chunk documents and the summary document.
C13_Witness ==
    /\ last.outcome = "stored" /\ last.content = "c_long"
    /\ LastPersisted
    /\ Cardinality(IdsOf(vdb, last.file)) = 3

\* C14 as claimed: in every reachable state the risks of each row are
\* detect_owasp_risks of the row's own analysis and content, and the risks
\* metadata of every vector document of a file equals the risks of the row
\* of that file.
C14_RisksFromOwnRecord ==
    \A i \in DOMAIN db :
        /\ Eval(db[i].risks) = DetectedRisks(db[i].analysis, db[i].content)
        /\ \A d \in vdb : d.file_path = db[i].file_path => d.risks = db[i].risks

\* The iteration just taken left the stores, the counts and the results as
\* they were and advanced the progress by one
SkippedStep ==
    /\ db' = db /\ vdb' = vdb /\ risk_count' = risk_count /\ results' = results
    /\ processed_files' = processed_files + 1

\* The analysis text holds a block with a name line, a severity and a reason
HasWellFormedBlock(a) ==
    \E i \in DOMAIN RiskBlocks(AnalysisText(a)) :
        LET block == RiskBlocks(AnalysisText(a))[i]
        IN  /\ RiskNameMatch(block) # NoMatch
            /\ SeverityMatch(block) # NoMatch
            /\ ReasonMatch(block)

\* C15 as claimed: a file is skipped if and only if its content is empty or
\* unreadable or its analysis is a failure string or a "no vulnerabilities"
\* answer; an analysis with a well-formed risk block is never skipped.
C15_SkipIff ==
    [][scan_idx' = scan_idx + 1
        => /\ SkippedStep <=> (\/ last'.outcome \in {"load_error", "empty"}
                               \/ last'.analysis \in {"an_failed", "an_none"})
           /\ (last'.content \in ContentIds /\ HasWellFormedBlock(last'.analysis)
                 => ~SkippedStep)]_vars

-----------------------------------------------------------------------------
(* Claims about backend errors                                             *)

-----------------------------------------------------------------------------
(* Claims about malformed blocks and repeated findings                     *)

\* The findings of the well-formed blocks, in their order, that the
\* corroboration filters keep
FindingsOfWellFormed(blocks, words) ==
    LET wf == SelectSeq(blocks, WellFormed)
    IN  SelectSeq([i \in DOMAIN wf |-> ExpectedFinding(wf[i])],
                  LAMBDA f : \A t \in TermsOf(f.risk_name) :
                                HasWord(words, CodeVocabulary(t)))

\* C17 as claimed: a block that lacks the name line, a Low/Medium/High
\* severity or the reason is dropped, and the findings returned are exactly
\* those of the remaining well-formed blocks in their original order.
C17_MalformedDropped ==
    dt_pc = "done" => dt_out = FindingsOfWellFormed(dt_blocks, dt_words)

CountOf(rc, name, sev) == IF name \in DOMAIN rc THEN rc[name][sev] ELSE 0

Occurrences(findings, name, sev) ==
    Cardinality({i \in DOMAIN findings :
                    findings[i] = [risk_name |-> name, severity |-> sev]})

\* Occurrences of a (name, severity) pair over the findings of all rows
StoredOccurrences(table, name, sev) ==
    Cardinality({p \in UNION {{<<i, j>> : j \in DOMAIN Eval(table[i].risks)} :
                                 i \in DOMAIN table} :
                    Eval(table[p[1]].risks)[p[2]] = [risk_name |-> name, severity |-> sev]})

RiskNames == {N_leak, N_shell}

\* C18: findings of the same name and severity from several blocks are all
\* kept and each is counted: an iteration that counts the findings of a file
\* raises RiskCount[name][severity] by the number of occurrences of the pair
\* among them, and the replay of the table gives, for each pair, its number
\* of occurrences over the findings of all rows and no other name.
C18_DuplicatesCounted ==
    /\ [][(scan_idx' = scan_idx + 1
             /\ last'.outcome \in {"stored", "db_error", "vec_error"})
            => \A found \in {DetectedRisks(last'.analysis, last'.content)} :
                   \A n \in RiskNames, sv \in SeverityWords :
                      CountOf(risk_count', n, sv)
                         = CountOf(risk_count, n, sv) + Occurrences(found, n, sv)]_vars
    /\ [](\A n \in RiskNames, sv \in SeverityWords :
             CountOf(load_risk_count_from_db(db), n, sv) = StoredOccurrences(db, n, sv))
    /\ [](DOMAIN load_risk_count_from_db(db) \subseteq RiskNames
            /\ DOMAIN risk_count \subseteq RiskNames)

\* C18 witness: both files of a directory gave the same finding twice; the
\* count of the scan and the replay of the table both give 4 for the pair.
C18_Witness ==
    /\ scan_pc = "completed" /\ Len(results) = 2
    /\ Len(results[1].risks) = 2 /\ results[1].risks[1] = results[1].risks[2]
    /\ CountOf(risk_count, N_leak, "Low") = 4
    /\ CountOf(load_risk_count_from_db(db), N_leak, "Low") = 4

-----------------------------------------------------------------------------
(* Claims about the fallbacks of query_vectors                             *)

SubstringOf(a, b) ==
    \E i \in 0..(Len(b) - Len(a)) : SubSeq(b, i + 1, i + Len(a)) = a

\* The retrieved documents whose filename is a substring of the candidate or
\* contains it, in the order of the retrieval
SubstringMatches(ranked, cand) ==
    SelectSeq(ranked, LAMBDA d : \/ SubstringOf(cand, Lower(d.filename))
                                 \/ SubstringOf(Lower(d.filename), cand))

\* C19: when documents were retrieved and no filename among them equals the
\* candidate token, query_vectors returns, in the order of the retrieval, the
\* documents whose filename is a substring of the candidate or contains it;
\* when there is none, or the question has no candidate, it returns all the
\* retrieved documents.
C19_SubstringThenFallback ==
    (/\ q_pc = "done" /\ q_ranked # <<>>
     /\ \A i \in DOMAIN q_ranked :
           Lower(q_ranked[i].filename) # TargetFilename(q_question))
    => /\ q_result.kind = "docs"
       /\ q_result.docs =
            (IF TargetFilename(q_question) = NoTarget
                \/ SubstringMatches(q_ranked, TargetFilename(q_question)) = <<>>
             THEN q_ranked
             ELSE SubstringMatches(q_ranked, TargetFilename(q_question)))

\* C19 witness: the question "f" on a collection with the documents of f.b
\* and g: the two documents of f.b are returned, those of g are not.
C19_Witness ==
    /\ q_pc = "done" /\ q_question = Q_f /\ Len(q_ranked) = 4
    /\ Len(q_result.docs) = 2
    /\ \A i \in DOMAIN q_result.docs : q_result.docs[i].file_path = P_a_fb

\* C20 as claimed: whenever retrieval finds no document (the collection is
\* empty, the query returns no documents, or the embedding or the query
\* fails), query_vectors returns the one-element "no related files found"
\* marker, never an empty or nested-empty result.
C20_MarkerWhenNothingFound ==
    (q_pc = "done" /\ q_ranked = <<>>) => q_result = Marker

-----------------------------------------------------------------------------
(* Claims about failures of the stores and the frame of the scan           *)

\* C21: when store_in_vector_db raises for a file during a scan, the loop
\* goes on with the next file, and the row store_in_database wrote for the
\* file stays in the table although the file is not in the returned results.
C21_VectorFailureKeepsRow ==
    /\ [][(scan_idx' = scan_idx + 1 /\ last'.outcome = "vec_error")
            => /\ last'.vec = "raised"
               /\ scan_pc' = "perfile"
               /\ Len(db') = Len(db) + 1
               /\ db'[Len(db')].file_path = last'.file
               /\ results' = results]_vars
    /\ [](last.outcome = "vec_error"
            => /\ RowsOf(db, last.file) = 1
               /\ \A i \in DOMAIN results : results[i].file_path # last.file
               /\ scan_pc \in {"perfile", "completed"})

\* C21 witness: the scan of a directory of two files is completed; the vector
\* store failed for the first file, whose row is in the table without vector
\* documents, and the second file was stored.
C21_Witness ==
    /\ scan_pc = "completed" /\ Len(scan_files) = 2
    /\ last.file = scan_files[2] /\ last.outcome = "stored"
    /\ RowsOf(db, scan_files[1]) = 1
    /\ IdsOf(vdb, scan_files[1]) = {}
    /\ Len(results) = 1

\* C22: during a scan processed_files is raised exactly once for each
\* enumerated file on every way through the loop, so after the k-th file it
\* is k; the value given to the progress bar is processed / total, never
\* decreases, never exceeds 1, and is 1 after the last file.
C22_ProgressCounts ==
    /\ [](scan_pc = "perfile"
            => /\ processed_files = scan_idx
               /\ progress[2] > 0 /\ progress[1] <= progress[2]
               /\ progress[1] * Len(scan_files) = processed_files * progress[2])
    /\ [](scan_pc = "completed"
            => processed_files = Len(scan_files) /\ progress = <<1, 1>>)
    /\ [][scan_pc = "perfile"
            => /\ progress'[1] * progress[2] >= progress[1] * progress'[2]
               /\ (scan_idx' = scan_idx + 1 => processed_files' = processed_files + 1)
               /\ (scan_idx' = Len(scan_files) /\ scan_pc' = "perfile"
                     => progress' = <<1, 1>>)]_vars

\* C22 witness: the first of two files could not be read: one file is
\* processed and the bar shows one half.
C22_Witness ==
    /\ scan_pc = "perfile" /\ Len(scan_files) = 2 /\ scan_idx = 1
    /\ last.outcome = "load_error"
    /\ processed_files = 1 /\ progress = <<1, 2>>

\* The file is located under the directory: its path is the directory, a
\* separator and more
LocatedUnder(file_path, directory) ==
    /\ Len(file_path) > Len(directory) + 1
    /\ SubSeq(file_path, 1, Len(directory)) = directory
    /\ file_path[Len(directory) + 1] = "/"

\* C23 as claimed: the invalidation at the start of scan_directory(D) leaves
\* in the table every row of a file that is not located under D, also the
\* rows of a sibling directory whose name begins with the characters of D.
C23_InvalidationFrame ==
    [][PressNo
        => \A i \in DOMAIN db :
              ~LocatedUnder(db[i].file_path, scan_dir')
              => \E j \in DOMAIN db' : db'[j] = db[i]]_vars

\* C24 as claimed: store_in_vector_db for file F leaves in the collection
\* every document of another file G, also of a G whose normalised path begins
\* with the normalised path of F.
C24_VectorFrame ==
    [][(scan_idx' = scan_idx + 1 /\ last'.vec \in {"returned", "raised"})
        => \A d \in vdb : d.file_path # last'.file => d \in vdb']_vars

\* Occurrences of a (name, severity) pair over the findings of all entries of
\* a results list
ResultOccurrences(res, name, sev) ==
    Cardinality({p \in UNION {{<<i, j>> : j \in DOMAIN res[i].risks} : i \in DOMAIN res} :
                    res[p[1]].risks[p[2]] = [risk_name |-> name, severity |-> sev]})

\* C25 as claimed: when scan_directory returns, the files of its results are
\* exactly the files for which this run inserted a row, and its RiskCount is
\* the fold of the findings of its results, also when a store step raised.
C25_ReturnedMatchesStored ==
    scan_pc = "completed"
    => /\ {results[i].file_path : i \in DOMAIN results} = stored_now
       /\ \A n \in RiskNames, sv \in SeverityWords :
             CountOf(risk_count, n, sv) = ResultOccurrences(results, n, sv)

====
